---- MODULE Spec2Model ----
(***************************************************************************)
(* Adversarial search exercises of the Artificial-Intelligence-Nanodegree  *)
(* notebooks: alpha_beta_search / min_value / max_value and the opening    *)
(* book builder build_table / build_tree / simulate, run against the       *)
(* gamestate harness (isolation on a 3x2 board, lower-right cell blocked). *)
(***************************************************************************)
EXTENDS Integers, Sequences, FiniteSets, TLC

(***************************************************************************)
(* The gamestate harness (imported by the notebooks, `import gamestate`).  *)
(***************************************************************************)
xlim == 3
ylim == 2

\* Python's None
None == <<>>

\* float("-inf") and float("inf"): every utility lies strictly between them
NegInf == -2
PosInf == 2

Min2(a, b) == IF a <= b THEN a ELSE b
Max2(a, b) == IF a >= b THEN a ELSE b

Cells == {<<x, y>> : x \in 0..(xlim - 1), y \in 0..(ylim - 1)}

\* the eight movement directions of a chess queen
RAYS == << <<1, 0>>, <<1, -1>>, <<0, -1>>, <<-1, -1>>,
           <<-1, 0>>, <<-1, 1>>, <<0, 1>>, <<1, 1>> >>

\* GameState(): empty board, lower-right corner blocked, player 0 to move
NewGameState ==
    [board  |-> [c \in Cells |-> IF c = <<xlim - 1, ylim - 1>> THEN 1 ELSE 0],
     parity |-> 0,
     player_locations |-> <<None, None>>]

\* [(x, y) for y in range(ylim) for x in range(xlim) if board[x][y] == 0]
get_blank_spaces(board) ==
    LET order == [i \in 1..(xlim * ylim) |-> <<(i - 1) % xlim, (i - 1) \div xlim>>]
    IN  SelectSeq(order, LAMBDA c : board[c] = 0)

\* open cells in a straight line from loc in direction d, up to the first
\* blocked cell or the edge of the board
RECURSIVE ray(_, _, _)
ray(board, loc, d) ==
    LET n == <<loc[1] + d[1], loc[2] + d[2]>>
    IN  IF n \in Cells /\ board[n] = 0
        THEN <<n>> \o ray(board, n, d)
        ELSE <<>>

RECURSIVE rays_from(_, _, _)
rays_from(board, loc, k) ==
    IF k > Len(RAYS) THEN <<>>
    ELSE ray(board, loc, RAYS[k]) \o rays_from(board, loc, k + 1)

liberties(board, loc) ==
    IF loc = None THEN get_blank_spaces(board) ELSE rays_from(board, loc, 1)

\* the ordered list of legal actions of the active player
actions(s) == liberties(s.board, s.player_locations[s.parity + 1])

InSeq(x, seq) == \E i \in 1..Len(seq) : seq[i] = x

\* a new GameState after the active player moves to cell a
result(s, a) ==
    [board  |-> [s.board EXCEPT ![a] = 1],
     parity |-> 1 - s.parity,
     player_locations |-> [s.player_locations EXCEPT ![s.parity + 1] = a]]

\* the active player has no legal move
terminal_test(s) == Len(actions(s)) = 0

\* +1 when player_id wins, -1 when player_id loses, 0 when the game is not over
utility(s, player_id) ==
    IF ~terminal_test(s) THEN 0
    ELSE IF player_id = s.parity THEN -1 ELSE 1

\* the `hashable` attribute: board cells flattened column by column, then
\* the two player locations, then the parity
hashable(s) ==
    [i \in 1..(xlim * ylim) |-> s.board[<<(i - 1) \div ylim, (i - 1) % ylim>>]]
        \o s.player_locations \o <<s.parity>>


(***************************************************************************)
(* State.  The caller fabricates a position (gameState), then runs         *)
(* alpha_beta_search on it.  GameState objects live in a heap and are      *)
(* referred to by their index, so that a state handed to a function and    *)
(* the new states made by result() are distinct objects.                   *)
(***************************************************************************)
VARIABLES
    phase,          \* "setup", "search", "done", or a phase of the book builder
    gameState,      \* the caller's GameState
    heap,           \* GameState objects alive during a search; heap[1] is the root
    stack,          \* activation records of min_value / max_value, innermost last
    ret,            \* <<v>> while a value is being returned to the caller, else <<>>
    alpha, beta, best_score, best_move, root_i,   \* locals of alpha_beta_search
    call_counter,   \* gamestate.call_counter: number of terminal_test() calls
    returned,       \* what the last alpha_beta_search call returned
    runs,           \* number of completed alpha_beta_search calls on gameState
    first_move,     \* what the first of these calls returned
    visited,        \* the nodes (action paths from the root) evaluated by this call
    skipped,        \* a cutoff return left some action of its node unexplored
    pruned,         \* the nodes cutoff returns of this call left unexplored
    num_rounds,     \* argument of build_table
    round,          \* number of episodes build_table has completed
    book,           \* defaultdict(Counter): key -> <<action, tally>> pairs, insertion order
    bt_stack,       \* activation records of build_tree, innermost last
    bt_ret,         \* <<reward>> while build_tree returns to its caller, else <<>>
    sim_state,      \* simulate: the local `state`
    player_id,      \* simulate: the local `player_id`
    table,          \* what build_table returned
    builds,         \* number of build_table invocations so far
    used,           \* episodes these invocations asked for, together
    n_started,      \* episodes the current invocation has started
    n_sim,          \* simulate() calls of the current invocation
    descended,      \* <<state, action>>: the action build_tree chose at the state
    rewards,        \* bag of <<state, action, reward>> the invocation tallied
    ep,             \* the episode in progress: rollout start, rollout end, tallied rewards
    nq_N,           \* nqueens: the argument N
    queens,         \* a candidate value for Q0..Q(N-1), as far as chosen
    nq_sat,         \* whether the candidate satisfies every constraint of nq_solver
    ca_models       \* the assignments to F, O, R, T, U, W that satisfy ca_solver

searchVars == <<heap, stack, ret, alpha, beta, best_score, best_move, root_i,
                call_counter, returned, runs, first_move, visited, skipped, pruned>>

ghostVars == <<builds, used, n_started, n_sim, descended, rewards, ep>>

cspVars == <<nq_N, queens, nq_sat, ca_models>>

bookVars == <<num_rounds, round, book, bt_stack, bt_ret, sim_state, player_id, table,
              ghostVars>>

\* number of times the caller may repeat the search on the same state
MaxRuns == 2

\* largest round count build_table is called with
MaxRounds == 2

\* number of times the caller may invoke build_table
MaxBuilds == 2

\* largest round count of the invocation whose termination is checked
MaxFairRounds == 1

\* largest board for which every candidate assignment of nqueens is tried
MaxN == 5

\* how far below and above their valid range candidate values are tried
Slack == 1

\* sizes = [8, 16, 32, 64]: the smallest board the notebook solves
FirstSize == 8

(***************************************************************************)
(* alpha_beta_search, min_value, max_value                                 *)
(***************************************************************************)
\* gameState.result(a): the child position is a new object; existing ones stay
Forecast_inplace(h, id, a) ==
    Append([h EXCEPT ![id] = result(h[id], a)], result(h[id], a))

Forecast_same(h, id, a) == Append(h, h[id])

Forecast(h, id, a) == Append(h, result(h[id], a))

\* best_score = float("-inf")
InitBestScore_finite == -1

InitBestScore == NegInf

\* best_score at the start of a call: a fresh local, whatever an earlier call left
StartBestScore_kept(prev) == prev

StartBestScore(prev) == InitBestScore

\* best_move = None
InitBestMove_origin == <<0, 0>>

InitBestMove == None

\* if v > best_score
Better_or_equal(v, best) == v >= best

Better(v, best) == v > best

\* if v <= alpha: return v
MinCutoff_strict(v, a) == v < a

MinCutoff(v, a) == v <= a

\* if v >= beta: return v
MaxCutoff_strict(v, b) == v > b

MaxCutoff(v, b) == v >= b

\* for a in gameState.actions(): the next action after the i-th
NextIndex_skip(i) == i + 2

NextIndex(i) == i + 1

\* gameState.utility(0): the player every terminal state is scored for
UtilityPlayer_other == 1

UtilityPlayer == 0

\* activation record of min_value(gameState, alpha, beta) / max_value(...)
Frame(fn, id, a, b, path) ==
    [fn |-> fn, gameState |-> id, alpha |-> a, beta |-> b,
     v |-> 0, i |-> 1, pc |-> "test", path |-> path]

Top == stack[Len(stack)]
Pop == SubSeq(stack, 1, Len(stack) - 1)
SetTop(f) == [stack EXCEPT ![Len(stack)] = f]
\* min_value and max_value call each other
Other_same(fn) == fn

Other(fn) == IF fn = "min_value" THEN "max_value" ELSE "min_value"

\* the children of the node of frame f that come after the one just evaluated
Unexplored(f, acts) == {Append(f.path, acts[j]) : j \in (f.i + 1)..Len(acts)}

\* the caller plays a legal move to reach the position it wants searched
Play(a) ==
    /\ phase = "setup"
    /\ InSeq(a, actions(gameState))
    /\ gameState' = result(gameState, a)
    /\ UNCHANGED <<phase, searchVars, bookVars, cspVars>>

\* the caller fabricates a position: one more open cell is blocked by an
\* obstacle, as the lower-right corner is in GameState()
Block(c) ==
    /\ phase = "setup"
    /\ c \in Cells /\ gameState.board[c] = 0
    /\ gameState' = [gameState EXCEPT !.board[c] = 1]
    /\ UNCHANGED <<phase, searchVars, bookVars, cspVars>>

\* min_value or max_value is running, under alpha_beta_search or called by itself
Evaluating == phase \in {"search", "eval"}

\* min_value(gameState, alpha, beta) or max_value(gameState, alpha, beta) called
\* by itself, on the position the caller has reached; alpha and beta hold the
\* caller's arguments
value_direct(fn, a, b) ==
    /\ phase = "setup"
    /\ a < b
    /\ phase' = "eval"
    /\ heap' = <<gameState>>
    /\ stack' = <<Frame(fn, 1, a, b, <<>>)>>
    /\ ret' = <<>>
    /\ alpha' = a
    /\ beta' = b
    /\ visited' = {<<>>}
    /\ skipped' = FALSE
    /\ pruned' = {}
    /\ UNCHANGED <<cspVars, bookVars, gameState, best_score, best_move, root_i,
                   call_counter, returned, runs, first_move>>

\* alpha_beta_search(gameState): entry, locals initialised
alpha_beta_search ==
    /\ \/ phase = "setup"
       \/ phase = "done" /\ runs < MaxRuns
    /\ phase' = "search"
    /\ heap' = IF phase = "setup" THEN <<gameState>> ELSE <<heap[1]>>
    /\ stack' = <<>>
    /\ ret' = <<>>
    /\ alpha' = NegInf
    /\ beta' = PosInf
    /\ best_score' = StartBestScore(best_score)
    /\ best_move' = InitBestMove
    /\ root_i' = 1
    /\ visited' = {}
    /\ skipped' = FALSE
    /\ pruned' = {}
    /\ UNCHANGED <<cspVars, bookVars,
                   gameState, call_counter, returned, runs, first_move>>

\* v = min_value(gameState.result(a), alpha, beta): the call
root_call ==
    /\ phase = "search" /\ stack = <<>> /\ ret = <<>>
    /\ root_i <= Len(actions(heap[1]))
    /\ LET a == actions(heap[1])[root_i]
       IN  /\ heap' = Forecast(heap, 1, a)
           /\ stack' = <<Frame("min_value", Len(heap) + 1, alpha, beta, <<a>>)>>
           /\ visited' = visited \cup {<<a>>}
    /\ UNCHANGED <<cspVars, bookVars,
                   phase, gameState, ret, alpha, beta, best_score, best_move,
                   root_i, call_counter, returned, runs, first_move, skipped, pruned>>

\* ... and the rest of the loop body once min_value has returned v
root_resume ==
    /\ phase = "search" /\ stack = <<>> /\ ret # <<>>
    /\ LET v == ret[1]
           a == actions(heap[1])[root_i]
       IN  /\ alpha' = Max2(alpha, v)
           /\ IF Better(v, best_score)
              THEN best_score' = v /\ best_move' = a
              ELSE UNCHANGED <<best_score, best_move>>
    /\ root_i' = NextIndex(root_i)
    /\ ret' = <<>>
    /\ UNCHANGED <<cspVars, bookVars,
                   phase, gameState, heap, stack, beta, call_counter, returned,
                   runs, first_move, visited, skipped, pruned>>

\* return best_move
root_return ==
    /\ phase = "search" /\ stack = <<>> /\ ret = <<>>
    /\ root_i > Len(actions(heap[1]))
    /\ phase' = "done"
    /\ returned' = best_move
    /\ runs' = runs + 1
    /\ first_move' = IF runs = 0 THEN best_move ELSE first_move
    /\ UNCHANGED <<cspVars, bookVars,
                   gameState, heap, stack, ret, alpha, beta, best_score, best_move,
                   root_i, call_counter, visited, skipped, pruned>>

\* if gameState.terminal_test(): return gameState.utility(0)
\* otherwise v = float("inf") in min_value, float("-inf") in max_value
value_test(fn, v0) ==
    /\ Evaluating /\ stack # <<>> /\ Top.fn = fn /\ Top.pc = "test"
    /\ call_counter' = call_counter + 1
    /\ IF terminal_test(heap[Top.gameState])
       THEN /\ stack' = Pop
            /\ ret' = <<utility(heap[Top.gameState], UtilityPlayer)>>
       ELSE /\ stack' = SetTop([Top EXCEPT !.v = v0, !.pc = "loop"])
            /\ ret' = <<>>
    /\ UNCHANGED <<cspVars, bookVars,
                   phase, gameState, heap, alpha, beta, best_score, best_move,
                   root_i, returned, runs, first_move, visited, skipped, pruned>>

\* for a in gameState.actions(): call the other evaluator on result(a) with the
\* current (alpha, beta); when the actions are exhausted, return v
value_call(fn) ==
    /\ Evaluating /\ stack # <<>> /\ Top.fn = fn /\ Top.pc = "loop"
    /\ LET acts == actions(heap[Top.gameState])
       IN  IF Top.i <= Len(acts)
           THEN LET a == acts[Top.i]
                    p == Append(Top.path, a)
                IN  /\ heap' = Forecast(heap, Top.gameState, a)
                    /\ stack' = Append(SetTop([Top EXCEPT !.pc = "wait"]),
                                       Frame(Other(fn), Len(heap) + 1,
                                             Top.alpha, Top.beta, p))
                    /\ visited' = visited \cup {p}
                    /\ ret' = <<>>
           ELSE /\ stack' = Pop
                /\ ret' = <<Top.v>>
                /\ UNCHANGED <<heap, visited>>
    /\ UNCHANGED <<cspVars, bookVars,
                   phase, gameState, alpha, beta, best_score, best_move, root_i,
                   call_counter, returned, runs, first_move, skipped, pruned>>

\* min_value: v = min(v, <returned>); if v <= alpha: return v; beta = min(beta, v)
min_value_resume ==
    /\ Evaluating /\ stack # <<>> /\ Top.fn = "min_value" /\ Top.pc = "wait"
    /\ ret # <<>>
    /\ LET v == Min2(Top.v, ret[1])
           acts == actions(heap[Top.gameState])
       IN  IF MinCutoff(v, Top.alpha)
           THEN /\ stack' = Pop
                /\ ret' = <<v>>
                /\ skipped' = (skipped \/ Top.i < Len(acts))
                /\ pruned' = pruned \cup Unexplored(Top, acts)
           ELSE /\ stack' = SetTop([Top EXCEPT !.v = v, !.beta = Min2(Top.beta, v),
                                               !.i = NextIndex(Top.i), !.pc = "loop"])
                /\ ret' = <<>>
                /\ UNCHANGED <<skipped, pruned>>
    /\ UNCHANGED <<cspVars, bookVars,
                   phase, gameState, heap, alpha, beta, best_score, best_move,
                   root_i, call_counter, returned, runs, first_move, visited>>

\* max_value: v = max(v, <returned>); if v >= beta: return v; alpha = max(alpha, v)
max_value_resume ==
    /\ Evaluating /\ stack # <<>> /\ Top.fn = "max_value" /\ Top.pc = "wait"
    /\ ret # <<>>
    /\ LET v == Max2(Top.v, ret[1])
           acts == actions(heap[Top.gameState])
       IN  IF MaxCutoff(v, Top.beta)
           THEN /\ stack' = Pop
                /\ ret' = <<v>>
                /\ skipped' = (skipped \/ Top.i < Len(acts))
                /\ pruned' = pruned \cup Unexplored(Top, acts)
           ELSE /\ stack' = SetTop([Top EXCEPT !.v = v, !.alpha = Max2(Top.alpha, v),
                                               !.i = NextIndex(Top.i), !.pc = "loop"])
                /\ ret' = <<>>
                /\ UNCHANGED <<skipped, pruned>>
    /\ UNCHANGED <<cspVars, bookVars,
                   phase, gameState, heap, alpha, beta, best_score, best_move,
                   root_i, call_counter, returned, runs, first_move, visited>>

min_value_test == value_test("min_value", PosInf)
max_value_test == value_test("max_value", NegInf)
min_value_call == value_call("min_value")
max_value_call == value_call("max_value")


(***************************************************************************)
(* build_table, build_tree, simulate                                       *)
(***************************************************************************)
\* build_tree(state, book, depth=2)
DefaultDepth == 2

\* book[state.hashable]: the key under which the chosen action is tallied
BookKey_child(state, action) == hashable(result(state, action))

BookKey(state, action) == hashable(state)

\* Counter: cnt[action] += reward; a missing action counts as 0 and is
\* inserted after the existing ones
CounterAdd(cnt, action, reward) ==
    IF \E i \in 1..Len(cnt) : cnt[i][1] = action
    THEN [i \in 1..Len(cnt) |->
             IF cnt[i][1] = action THEN <<action, cnt[i][2] + reward>> ELSE cnt[i]]
    ELSE Append(cnt, <<action, reward>>)

\* book[key][action] += reward on a defaultdict(Counter)
BookAdd(b, key, action, reward) ==
    [k \in DOMAIN b \cup {key} |->
        IF k = key
        THEN CounterAdd(IF key \in DOMAIN b THEN b[key] ELSE <<>>, action, reward)
        ELSE b[k]]

\* max(v, key=v.get): the first action, in insertion order, with the largest tally
CounterMax_first(cnt) == cnt[1][1]

CounterMax(cnt) ==
    LET i == CHOOSE k \in 1..Len(cnt) :
                 /\ \A j \in 1..Len(cnt) : cnt[j][2] <= cnt[k][2]
                 /\ \A j \in 1..(k - 1) : cnt[j][2] < cnt[k][2]
    IN  cnt[i][1]

\* build_tree: if depth <= 0 or state.terminal_test()
StopDescent_late(state, depth) == depth < 0 \/ terminal_test(state)

StopDescent(state, depth) == depth <= 0 \/ terminal_test(state)

\* build_tree: return -simulate(state)
RolloutReward_same(sim) == sim

RolloutReward(sim) == -sim

BtFrame(state, depth) ==
    [state |-> state, depth |-> depth, action |-> None, pc |-> "enter"]

BtTop == bt_stack[Len(bt_stack)]
BtPop == SubSeq(bt_stack, 1, Len(bt_stack) - 1)

\* book = defaultdict(Counter): every invocation starts from an empty tally
FreshBook_kept(prev) == prev

FreshBook(prev) == <<>>

\* for _ in range(num_rounds): one more episode is due after r completed ones
MoreRounds_le(r, n) == r <= n

MoreRounds(r, n) == r < n

\* range(num_rounds): the loop counter after one more episode
NextRound_stuck(r) == r

NextRound(r) == r + 1

\* what is remembered about one episode, for the properties below
NoEpisode == [start |-> None, final |-> None, sim |-> 0, contribs |-> <<>>]

\* one more occurrence of x in the bag b
BagAdd(b, x) ==
    [y \in DOMAIN b \cup {x} |->
        IF y = x THEN (IF x \in DOMAIN b THEN b[x] ELSE 0) + 1 ELSE b[y]]

\* build_table(num_rounds): book = defaultdict(Counter).  The caller may invoke
\* it again after it has returned; together the invocations ask for at most
\* MaxRounds episodes.
build_table(R) ==
    /\ phase \in {"idle", "built"}
    /\ builds < MaxBuilds
    /\ used + R <= MaxRounds
    /\ phase' = "build"
    /\ num_rounds' = R
    /\ round' = 0
    /\ book' = FreshBook(book)
    /\ bt_stack' = <<>>
    /\ bt_ret' = <<>>
    /\ builds' = builds + 1
    /\ used' = used + R
    /\ n_started' = 0
    /\ n_sim' = 0
    /\ descended' = {}
    /\ rewards' = <<>>
    /\ ep' = NoEpisode
    /\ UNCHANGED <<gameState, searchVars, cspVars, sim_state, player_id, table>>

\* build_tree(state, book) called by itself, on the position the caller has
\* reached and with an empty book
build_tree_call ==
    /\ phase = "setup"
    /\ phase' = "build"
    /\ book' = <<>>
    /\ bt_stack' = <<BtFrame(gameState, DefaultDepth)>>
    /\ bt_ret' = <<>>
    /\ n_started' = 1
    /\ n_sim' = 0
    /\ descended' = {}
    /\ rewards' = <<>>
    /\ ep' = NoEpisode
    /\ UNCHANGED <<gameState, searchVars, cspVars, num_rounds, round, sim_state,
                   player_id, table, builds, used>>

\* for _ in range(num_rounds): state = GameState(); build_tree(state, book)
episode_start ==
    /\ phase = "build" /\ bt_stack = <<>> /\ bt_ret = <<>>
    /\ MoreRounds(round, num_rounds)
    /\ bt_stack' = <<BtFrame(NewGameState, DefaultDepth)>>
    /\ n_started' = n_started + 1
    /\ UNCHANGED <<phase, gameState, searchVars, cspVars, num_rounds, round, book, bt_ret,
                   sim_state, player_id, table, builds, used, n_sim, descended,
                   rewards, ep>>

\* build_tree: if depth <= 0 or state.terminal_test(): return -simulate(state)
\* else action = random.choice(state.actions()); build_tree(result, depth - 1)
build_tree_enter ==
    /\ phase = "build" /\ bt_stack # <<>> /\ BtTop.pc = "enter"
    /\ IF StopDescent(BtTop.state, BtTop.depth)
       THEN /\ phase' = "simulate"
            /\ sim_state' = BtTop.state
            /\ player_id' = BtTop.state.parity
            /\ n_sim' = n_sim + 1
            /\ ep' = [ep EXCEPT !.start = BtTop.state]
            /\ UNCHANGED <<bt_stack, descended>>
       ELSE /\ \E i \in 1..Len(actions(BtTop.state)) :
                 LET action == actions(BtTop.state)[i]
                 IN  /\ bt_stack' =
                           Append([bt_stack EXCEPT ![Len(bt_stack)] =
                                      [BtTop EXCEPT !.action = action, !.pc = "wait"]],
                                  BtFrame(result(BtTop.state, action), BtTop.depth - 1))
                     /\ descended' = descended \cup {<<BtTop.state, action>>}
            /\ UNCHANGED <<phase, sim_state, player_id, n_sim, ep>>
    /\ UNCHANGED <<gameState, searchVars, cspVars, num_rounds, round, book, bt_ret, table,
                   builds, used, n_started, rewards>>

\* simulate: while not state.terminal_test():
\*               state = state.result(random.choice(state.actions()))
simulate_move ==
    /\ phase = "simulate" /\ ~terminal_test(sim_state)
    /\ \E i \in 1..Len(actions(sim_state)) :
          sim_state' = result(sim_state, actions(sim_state)[i])
    /\ UNCHANGED <<phase, gameState, searchVars, cspVars, num_rounds, round, book, bt_stack,
                   bt_ret, player_id, table, ghostVars>>

\* simulate: player_id = state._parity is read before the loop and used after it
ScoredPlayer_final(pid, final) == final.parity

ScoredPlayer(pid, final) == pid

\* build_tree: return -reward
Returned_same(reward) == reward

Returned(reward) == -reward

\* simulate: return -1 if state.utility(player_id) < 0 else 1
SimulateValue(state, pid) == IF utility(state, pid) < 0 THEN -1 ELSE 1

\* the rollout is over: simulate returns and build_tree returns its negation
simulate_return ==
    /\ phase = "simulate" /\ terminal_test(sim_state)
    /\ phase' = "build"
    /\ bt_ret' = <<RolloutReward(SimulateValue(sim_state, ScoredPlayer(player_id, sim_state)))>>
    /\ bt_stack' = BtPop
    /\ sim_state' = None
    /\ ep' = [ep EXCEPT !.final = sim_state,
                        !.sim = SimulateValue(sim_state, ScoredPlayer(player_id, sim_state))]
    /\ UNCHANGED <<gameState, searchVars, cspVars, num_rounds, round, book, player_id, table,
                   builds, used, n_started, n_sim, descended, rewards>>

\* build_tree: reward = <returned>; book[state.hashable][action] += reward;
\* return -reward
build_tree_resume ==
    /\ phase = "build" /\ bt_stack # <<>> /\ BtTop.pc = "wait" /\ bt_ret # <<>>
    /\ LET reward == bt_ret[1]
       IN  /\ book' = BookAdd(book, BookKey(BtTop.state, BtTop.action),
                              BtTop.action, reward)
           /\ bt_ret' = <<Returned(reward)>>
           /\ rewards' = BagAdd(rewards, <<BtTop.state, BtTop.action, reward>>)
           /\ ep' = [ep EXCEPT !.contribs =
                                   Append(@, <<BtTop.state, BtTop.action, reward>>)]
    /\ bt_stack' = BtPop
    /\ UNCHANGED <<phase, gameState, searchVars, cspVars, num_rounds, round, sim_state,
                   player_id, table, builds, used, n_started, n_sim, descended>>

\* the episode's build_tree call has returned; its value is discarded
episode_end ==
    /\ phase = "build" /\ bt_stack = <<>> /\ bt_ret # <<>>
    /\ round' = NextRound(round)
    /\ bt_ret' = <<>>
    /\ ep' = NoEpisode
    /\ UNCHANGED <<phase, gameState, searchVars, cspVars, num_rounds, book, bt_stack,
                   sim_state, player_id, table, builds, used, n_started, n_sim,
                   descended, rewards>>

\* return {k: max(v, key=v.get) for k, v in book.items()}
build_table_return ==
    /\ phase = "build" /\ bt_stack = <<>> /\ bt_ret = <<>>
    /\ ~MoreRounds(round, num_rounds)
    /\ phase' = "built"
    /\ table' = [k \in DOMAIN book |-> CounterMax(book[k])]
    /\ UNCHANGED <<gameState, searchVars, cspVars, num_rounds, round, book, bt_stack, bt_ret,
                   sim_state, player_id, ghostVars>>

(***************************************************************************)
(* Constraint satisfaction: nqueens(N) and the cryptarithmetic ca_solver   *)
(***************************************************************************)
\* def Abs(x): return If(x >= 0, x, -x)
Abs(x) == IF x >= 0 THEN x ELSE -x

\* Python's abs on the column indices i and j
abs(x) == IF x < 0 THEN -x ELSE x

\* (0 <= q, q < N) for q in queens
ValidRange(N, q) == \A i \in DOMAIN q : 0 <= q[i] /\ q[i] < N

\* z3's Distinct: the values are pairwise different
Distinct(q) == \A i, j \in DOMAIN q : i # j => q[i] # q[j]

\* Abs(q1 - q2) != abs(i - j)
Diagonal_noabs(q1, q2, i, j) == q1 - q2 # i - j

Diagonal(q1, q2, i, j) == Abs(q1 - q2) # abs(i - j)

\* for i, q1 in enumerate(queens): for j, q2 in enumerate(queens):
\*     if i == j: continue
DifferentDiagonals(q) ==
    \A i, j \in DOMAIN q : i # j => Diagonal(q[i], q[j], i, j)

\* the constraints nqueens(N) adds to nq_solver, on the queens chosen so far
nq_constraints(N, q) ==
    /\ ValidRange(N, q)
    /\ Distinct(q)
    /\ DifferentDiagonals(q)

\* candidate values of a queen variable: the rows and Slack values either side
Rows(N) == (0 - Slack)..(N - 1 + Slack)

\* nq_solver = nqueens(N)
nqueens(N) ==
    /\ phase = "csp"
    /\ phase' = "queens"
    /\ nq_N' = N
    /\ queens' = <<>>
    /\ UNCHANGED <<gameState, searchVars, bookVars, nq_sat, ca_models>>

\* the next queen variable gets a value.  Up to MaxN every candidate is tried;
\* on a larger board only candidates that break no constraint are extended.
choose_row(v) ==
    /\ phase = "queens"
    /\ Len(queens) < nq_N
    /\ nq_N <= MaxN \/ nq_constraints(nq_N, Append(queens, v))
    /\ queens' = Append(queens, v)
    /\ UNCHANGED <<phase, gameState, searchVars, bookVars, nq_N, nq_sat, ca_models>>

\* nq_solver.check() on the candidate
nq_check ==
    /\ phase = "queens"
    /\ Len(queens) = nq_N
    /\ nq_sat' = nq_constraints(nq_N, queens)
    /\ phase' = "queens_checked"
    /\ UNCHANGED <<gameState, searchVars, bookVars, nq_N, queens, ca_models>>

\* ca_solver.add(0 <= F, F <= 9) and the same for O, R, T, U, W
Digit(x) == 0 <= x /\ x <= 9

\* ca_solver.add(F != 0); ca_solver.add(T != 0)
LeadingDigits_T(a) == a.T # 0

LeadingDigits(a) == a.F # 0 /\ a.T # 0

\* (T + T)*10**2 + (W + W)*10**1 + (O + O)*10**0 ==
\*     F*10**3 + O*10**2 + U*10**1 + R*10**0
Problem(a) ==
    (a.T + a.T) * 10^2 + (a.W + a.W) * 10^1 + (a.O + a.O) * 10^0 =
        a.F * 10^3 + a.O * 10^2 + a.U * 10^1 + a.R * 10^0

\* every constraint added to ca_solver
ca_constraints(a) ==
    /\ Digit(a.F) /\ Digit(a.O) /\ Digit(a.R) /\ Digit(a.T) /\ Digit(a.U) /\ Digit(a.W)
    /\ LeadingDigits(a)
    /\ Distinct(<<a.F, a.O, a.R, a.T, a.U, a.W>>)
    /\ Problem(a)

\* candidate values of a letter: the digits and Slack values either side
Values == (0 - Slack)..(9 + Slack)

Assignments == [F : Values, O : Values, R : Values, T : Values, U : Values, W : Values]

\* ca_solver.check(): the assignments that satisfy every constraint
ca_check ==
    /\ phase = "csp"
    /\ ca_models' = {a \in Assignments : ca_constraints(a)}
    /\ phase' = "crypt_checked"
    /\ UNCHANGED <<gameState, searchVars, bookVars, nq_N, queens, nq_sat>>

vars == <<phase, gameState, searchVars, bookVars, cspVars>>

InitRest ==
    /\ gameState = NewGameState
    /\ heap = <<>>
    /\ stack = <<>>
    /\ ret = <<>>
    /\ alpha = NegInf
    /\ beta = PosInf
    /\ best_score = NegInf
    /\ best_move = None
    /\ root_i = 1
    /\ call_counter = 0
    /\ returned = None
    /\ runs = 0
    /\ first_move = None
    /\ visited = {}
    /\ skipped = FALSE
    /\ pruned = {}
    /\ num_rounds = 0
    /\ round = 0
    /\ book = <<>>
    /\ bt_stack = <<>>
    /\ bt_ret = <<>>
    /\ sim_state = None
    /\ player_id = 0
    /\ table = <<>>
    /\ builds = 0
    /\ used = 0
    /\ n_started = 0
    /\ n_sim = 0
    /\ descended = {}
    /\ rewards = <<>>
    /\ ep = [start |-> None, final |-> None, sim |-> 0, contribs |-> <<>>]
    /\ nq_N = 0
    /\ queens = <<>>
    /\ nq_sat = FALSE
    /\ ca_models = {}

Init == phase = "setup" /\ InitRest

Next ==
    \/ \E a \in Cells : Play(a)
    \/ \E c \in Cells : Block(c)
    \/ alpha_beta_search
    \/ root_call
    \/ root_resume
    \/ root_return
    \/ min_value_test
    \/ min_value_call
    \/ min_value_resume
    \/ max_value_test
    \/ max_value_call
    \/ max_value_resume

Spec == Init /\ [][Next]_vars

\* the steps of a running alpha_beta_search; it is ordinary sequential code, so
\* while one of them is possible one is taken
SearchStep ==
    \/ root_call
    \/ root_resume
    \/ root_return
    \/ min_value_test
    \/ min_value_call
    \/ min_value_resume
    \/ max_value_test
    \/ max_value_call
    \/ max_value_resume

SpecFair == Spec /\ WF_vars(SearchStep)

\* the opening-book builder on its own
InitBook == phase = "idle" /\ InitRest

NextBook ==
    \/ \E R \in 0..MaxRounds : build_table(R)
    \/ episode_start
    \/ build_tree_enter
    \/ simulate_move
    \/ simulate_return
    \/ build_tree_resume
    \/ episode_end
    \/ build_table_return

SpecBook == InitBook /\ [][NextBook]_vars

\* one invocation of build_table; it is ordinary sequential code, so while a
\* step is possible one is taken
NextBookOnce ==
    \/ \E R \in 0..MaxFairRounds : builds = 0 /\ build_table(R)
    \/ episode_start
    \/ build_tree_enter
    \/ simulate_move
    \/ simulate_return
    \/ build_tree_resume
    \/ episode_end
    \/ build_table_return

SpecBookFair == InitBook /\ [][NextBookOnce]_vars /\ WF_vars(NextBookOnce)


\* the values min_value and max_value are called with as alpha and beta
WindowBounds == {NegInf, -1, 0, 1, PosInf}

\* min_value and max_value on their own, called on any position of the game
\* with any window
NextValue ==
    \/ \E a \in Cells : Play(a)
    \/ \E fn \in {"min_value", "max_value"} :
          \E a, b \in WindowBounds : value_direct(fn, a, b)
    \/ min_value_test
    \/ min_value_call
    \/ min_value_resume
    \/ max_value_test
    \/ max_value_call
    \/ max_value_resume

SpecValue == Init /\ [][NextValue]_vars

\* build_tree on its own, called on any position of the game
NextTree ==
    \/ \E a \in Cells : Play(a)
    \/ build_tree_call
    \/ build_tree_enter
    \/ simulate_move
    \/ simulate_return
    \/ build_tree_resume

SpecTree == Init /\ [][NextTree]_vars

\* the constraint problems on their own
InitCSP == phase = "csp" /\ InitRest

NextCSP ==
    \/ \E N \in (1..MaxN) \cup {FirstSize} : nqueens(N)
    \/ \E v \in Rows(nq_N) : choose_row(v)
    \/ nq_check
    \/ ca_check

SpecCSP == InitCSP /\ [][NextCSP]_vars

(***************************************************************************)
(* Reference: plain (unpruned) minimax over the same game, same action     *)
(* order, scoring terminal states for player p.                            *)
(***************************************************************************)
RECURSIVE PlainValue(_, _, _)
PlainValue(s, maximizing, p) ==
    IF terminal_test(s) THEN utility(s, p)
    ELSE LET acts == actions(s)
             vals == {PlainValue(result(s, acts[i]), ~maximizing, p) : i \in 1..Len(acts)}
         IN  IF maximizing
             THEN CHOOSE v \in vals : \A w \in vals : w <= v
             ELSE CHOOSE v \in vals : \A w \in vals : v <= w

\* backed-up value of root action a: the minimizer's value of result(s, a)
ActionValue(s, a, p) == PlainValue(result(s, a), FALSE, p)

BestValue(s, p) ==
    LET vals == {ActionValue(s, actions(s)[i], p) : i \in 1..Len(actions(s))}
    IN  CHOOSE v \in vals : \A w \in vals : w <= v

\* the first action, in actions() order, whose value is the maximum
PlainDecision(s, p) ==
    LET acts == actions(s)
        i == CHOOSE k \in 1..Len(acts) :
                 /\ ActionValue(s, acts[k], p) = BestValue(s, p)
                 /\ \A j \in 1..(k - 1) : ActionValue(s, acts[j], p) < BestValue(s, p)
    IN  acts[i]

\* every node plain minimax evaluates below s: all non-empty legal action paths
RECURSIVE PlainNodes(_)
PlainNodes(s) ==
    UNION {{<<actions(s)[i]>>} \cup
           {<<actions(s)[i]>> \o q : q \in PlainNodes(result(s, actions(s)[i]))}
           : i \in 1..Len(actions(s))}

Done == phase = "done"
NonTerminalRoot == Len(actions(gameState)) > 0

(***************************************************************************)
(* Claims                                                                  *)
(***************************************************************************)
\* C1: on every non-terminal state alpha_beta_search returns the action plain
\* minimax returns with the same action order: the first action whose minimax
\* value is the maximum over the root actions.
C1_SameAsPlainMinimax ==
    (Done /\ NonTerminalRoot) => returned = PlainDecision(gameState, 0)

\* a search that pruned, on a root where a later action ties with the chosen one
C1_Witness ==
    /\ Done /\ NonTerminalRoot /\ skipped
    /\ returned = PlainDecision(gameState, 0)
    /\ \E i \in 1..Len(actions(gameState)) :
          /\ actions(gameState)[i] # returned
          /\ ActionValue(gameState, actions(gameState)[i], 0) = BestValue(gameState, 0)

\* C2: on every non-terminal state alpha_beta_search returns a member of the
\* state's actions(), never None and never an illegal action.
C2_ReturnsLegalAction ==
    (Done /\ NonTerminalRoot) => InSeq(returned, actions(gameState))

\* a root whose every action loses for player 0: no value exceeds -1
C2_Witness ==
    /\ Done /\ NonTerminalRoot
    /\ BestValue(gameState, 0) = -1
    /\ InSeq(returned, actions(gameState))

\* C3: whichever player is to move at the root, the returned action maximizes
\* the guaranteed outcome of that player (terminal states scored for the
\* player to move at the root).
C3_MaximizesSearchingPlayer ==
    (Done /\ NonTerminalRoot) =>
        ActionValue(gameState, returned, gameState.parity)
            = BestValue(gameState, gameState.parity)

\* C4: when player 0 is to move and some action leads directly to a terminal
\* state player 0 wins, the returned action has backed-up value +1, and it is
\* the winning action when exactly one action has value +1.
WinInOne(s) ==
    /\ s.parity = 0
    /\ \E i \in 1..Len(actions(s)) :
          /\ terminal_test(result(s, actions(s)[i]))
          /\ utility(result(s, actions(s)[i]), 0) = 1

WinningActions(s) ==
    {i \in 1..Len(actions(s)) : ActionValue(s, actions(s)[i], 0) = 1}

C4_WinInOne ==
    (Done /\ WinInOne(gameState)) =>
        /\ InSeq(returned, actions(gameState))
        /\ ActionValue(gameState, returned, 0) = 1
        /\ \A i \in WinningActions(gameState) :
              Cardinality(WinningActions(gameState)) = 1
                  => returned = actions(gameState)[i]

\* a win-in-one root whose only winning action is not the first one tried
C4_Witness ==
    /\ Done /\ WinInOne(gameState)
    /\ Cardinality(WinningActions(gameState)) = 1
    /\ 1 \notin WinningActions(gameState)
    /\ ActionValue(gameState, returned, 0) = 1

\* C5: the nodes alpha_beta_search evaluates are nodes plain minimax evaluates,
\* so its count is never larger; the counts are equal when no cutoff skipped a
\* remaining action and the alpha-beta count is strictly smaller otherwise.
C5_NodesSubsetOfMinimax ==
    (Done /\ NonTerminalRoot) =>
        /\ visited \subseteq PlainNodes(gameState)
        /\ Cardinality(visited) <= Cardinality(PlainNodes(gameState))
        /\ ~skipped => Cardinality(visited) = Cardinality(PlainNodes(gameState))
        /\ skipped => Cardinality(visited) < Cardinality(PlainNodes(gameState))

\* one search that pruned (from the empty board) ...
C5_Witness ==
    /\ Done /\ gameState = NewGameState /\ skipped
    /\ Cardinality(visited) < Cardinality(PlainNodes(gameState))

\* ... and one with more than one level below the root where nothing was pruned
C5_WitnessNoCutoff ==
    /\ Done /\ NonTerminalRoot /\ ~skipped
    /\ Cardinality(visited) > Len(actions(gameState))

\* C7: a second alpha_beta_search on the same unmodified state returns the same
\* action as the first, whatever the first call left behind.
C7_Deterministic ==
    (Done /\ runs >= 2) => returned = first_move

\* a repeated search on a non-terminal state
C7_Witness ==
    Done /\ runs = 2 /\ NonTerminalRoot /\ returned = first_move /\ returned # None

\* C8: the search never changes an existing GameState: the caller's state and
\* every state made so far keep their board and parity, each new position is
\* made by result() from an existing one, and a call starts with fresh locals.
C8_NoSideEffects ==
    [][/\ phase # "setup" => gameState' = gameState
       /\ phase' # "setup" => heap'[1] = gameState'
       /\ \A o \in 1..Min2(Len(heap), Len(heap')) : heap'[o] = heap[o]
       /\ Len(heap') > Len(heap) /\ phase = "search" =>
             \E o \in 1..Len(heap) : \E i \in 1..Len(actions(heap[o])) :
                 heap' = Append(heap, result(heap[o], actions(heap[o])[i]))
       /\ phase # "search" /\ phase' = "search" =>
             /\ stack' = <<>> /\ best_move' = None
             /\ alpha' = NegInf /\ beta' = PosInf /\ best_score' = NegInf]_vars

\* a finished search that made child positions and left the root as passed
C8_Witness ==
    Done /\ Len(heap) > 2 /\ heap[1] = gameState /\ stack = <<>>

\* C9 as stated: a call on a state with no legal actions never returns normally.
C9_TerminalRootIsFatal ==
    Done => NonTerminalRoot

\* C9 amended: on a state with no legal actions alpha_beta_search evaluates no
\* node and returns None.
C9_TerminalRootReturnsNone ==
    (Done /\ ~NonTerminalRoot) =>
        returned = None /\ visited = {} /\ Len(heap) = 1

\* a finished call on a state with no legal actions
C9_Witness ==
    Done /\ ~NonTerminalRoot /\ returned = None


\* the GameState a hashable key stands for
StateOf(k) ==
    [board  |-> [c \in Cells |-> k[c[1] * ylim + c[2] + 1]],
     parity |-> k[xlim * ylim + 3],
     player_locations |-> <<k[xlim * ylim + 1], k[xlim * ylim + 2]>>]

IsHashable(k) ==
    /\ DOMAIN k = 1..(xlim * ylim + 3)
    /\ \A i \in 1..(xlim * ylim) : k[i] \in {0, 1}
    /\ \A i \in {xlim * ylim + 1, xlim * ylim + 2} : k[i] \in Cells \cup {None}
    /\ k[xlim * ylim + 3] \in {0, 1}
    /\ hashable(StateOf(k)) = k

Built == phase = "built"

\* C10: for R > 0, build_table(R) returns a non-empty mapping whose keys are
\* hashable representations of game states and whose values are (x, y)
\* actions legal in the state of their key.
C10_BookKeysAndLegalActions ==
    (Built /\ num_rounds > 0) =>
        /\ DOMAIN table # {}
        /\ \A k \in DOMAIN table :
              /\ IsHashable(k)
              /\ table[k] \in Cells
              /\ InSeq(table[k], actions(StateOf(k)))

\* a book with the initial state and a later state among its keys
C10_Witness ==
    /\ Built /\ num_rounds > 0
    /\ hashable(NewGameState) \in DOMAIN table
    /\ Cardinality(DOMAIN table) >= 2
    /\ \A k \in DOMAIN table : InSeq(table[k], actions(StateOf(k)))

(***************************************************************************)
(* The opening book against what its episodes did                          *)
(***************************************************************************)
RECURSIVE SumOver(_, _)
SumOver(b, S) ==
    IF S = {} THEN 0
    ELSE LET x == CHOOSE y \in S : TRUE
         IN  x[3] * b[x] + SumOver(b, S \ {x})

\* the sum of the rewards the episodes tallied for action a at state s
Tally(b, s, a) == SumOver(b, {x \in DOMAIN b : x[1] = s /\ x[2] = a})

\* the actions the episodes chose at state s
Tried(s) == {p[2] : p \in {q \in descended : q[1] = s}}

\* C11: build_table(0) runs no episode and no rollout and returns an empty
\* mapping, so every lookup in the returned book is a miss.
C11_ZeroRoundsEmptyBook ==
    (num_rounds = 0 /\ phase \in {"build", "simulate", "built"}) =>
        /\ n_started = 0
        /\ n_sim = 0
        /\ bt_stack = <<>>
        /\ book = <<>>
        /\ Built => DOMAIN table = {}

\* build_table(0) has returned an empty book after an earlier invocation had
\* returned a non-empty one
C11_Witness ==
    /\ Built /\ num_rounds = 0 /\ builds = 2 /\ used > 0
    /\ DOMAIN table = {}

\* C12: for every key s of the returned book the recommended action was chosen
\* from s in at least one episode, and the sum of its rewards over all episodes
\* is at least that of every other action tried from s, also when all the sums
\* are zero or negative.
C12_RecommendsMaxTally ==
    Built =>
        \A k \in DOMAIN table :
            LET s == StateOf(k)
            IN  /\ table[k] \in Tried(s)
                /\ \A a \in Tried(s) : Tally(rewards, s, a) <= Tally(rewards, s, table[k])

\* one key with two tried actions whose sums are both negative, and one key
\* where the recommended action is not the one tried first
C12_Witness ==
    /\ Built
    /\ \E k \in DOMAIN table :
          /\ Cardinality(Tried(StateOf(k))) >= 2
          /\ \A a \in Tried(StateOf(k)) : Tally(rewards, StateOf(k), a) < 0

C12_WitnessLaterAction ==
    /\ Built
    /\ \E k \in DOMAIN table : table[k] # book[k][1][1]

\* the episode's build_tree call has returned to build_table
EpisodeOver == phase = "build" /\ bt_stack = <<>> /\ bt_ret # <<>>

\* the player who was to move where the rollout started has won the rollout
StarterWon == utility(ep.final, ep.start.parity) > 0
StarterLost == utility(ep.final, ep.start.parity) < 0

\* the pair tallied first in the episode: the state one ply above the rollout
\* start with the action that led to the rollout start
NearestPair == ep.contribs[1]

\* C13 as stated: when the player to move at the state where the rollout starts
\* wins the simulated game, the pair tallied next to the rollout start gets a
\* positive reward, and a negative one when that player loses.
C13_StarterWinIsPositive ==
    (EpisodeOver /\ ep.contribs # <<>>) =>
        /\ StarterWon => NearestPair[3] > 0
        /\ StarterLost => NearestPair[3] < 0

\* C13 amended: the pair tallied next to the rollout start is the state one ply
\* above it, whose mover is the opponent of the player to move at the rollout
\* start; it gets -1 when the player to move at the rollout start wins the
\* simulated game and +1 when that player loses.
C13_StarterWinIsNegative ==
    (EpisodeOver /\ ep.contribs # <<>>) =>
        /\ result(NearestPair[1], NearestPair[2]) = ep.start
        /\ NearestPair[1].parity # ep.start.parity
        /\ StarterWon \/ StarterLost
        /\ StarterWon => NearestPair[3] = -1
        /\ StarterLost => NearestPair[3] = 1

\* an episode whose rollout was won by the player to move at its start, and one
\* whose rollout that player lost
C13_Witness ==
    /\ EpisodeOver /\ ep.contribs # <<>>
    /\ StarterWon /\ NearestPair[3] = -1

C13_WitnessLost ==
    /\ EpisodeOver /\ ep.contribs # <<>>
    /\ StarterLost /\ NearestPair[3] = 1

\* the number of moves made to reach state s
Ply(s) == Cardinality({c \in Cells : s.board[c] # 0}) - 1

\* the states reachable from the initial state in exactly n plies
RECURSIVE StatesAt(_)
StatesAt(n) ==
    IF n = 0 THEN {NewGameState}
    ELSE UNION {{result(s, actions(s)[i]) : i \in 1..Len(actions(s))} :
                    s \in StatesAt(n - 1)}

\* C14: the keys of the returned book are exactly the non-terminal states at
\* which some episode chose an action during its descent; each is reachable
\* from the initial state in fewer than DefaultDepth plies, so no state at ply
\* DefaultDepth or deeper, no terminal state and no state seen only in a
\* rollout is a key; the initial state is a key whenever R > 0.
C14_KeysAreDescentStates ==
    Built =>
        /\ DOMAIN table = {hashable(p[1]) : p \in descended}
        /\ \A p \in descended :
              /\ ~terminal_test(p[1])
              /\ \E n \in 0..(DefaultDepth - 1) : p[1] \in StatesAt(n)
        /\ \A k \in DOMAIN table :
              /\ Ply(StateOf(k)) < DefaultDepth
              /\ ~terminal_test(StateOf(k))
        /\ num_rounds > 0 => hashable(NewGameState) \in DOMAIN table

\* a book of two episodes that went different ways: the initial state and two
\* states one ply below it are its keys
C14_Witness ==
    /\ Built /\ num_rounds = 2
    /\ hashable(NewGameState) \in DOMAIN table
    /\ Cardinality(DOMAIN table) = 3
    /\ \A k \in DOMAIN table : Ply(StateOf(k)) < DefaultDepth

\* C15: in any sequence of build_table invocations each one starts from an
\* empty tally, and the tallies and the book it returns come from the episodes
\* of that invocation alone.
C15_InvocationsIndependent ==
    /\ (phase = "build" /\ n_started = 0) => book = <<>>
    /\ (Built \/ (phase = "build" /\ bt_stack = <<>> /\ bt_ret = <<>>)) =>
          \A k \in DOMAIN book : \A i \in 1..Len(book[k]) :
              /\ book[k][i][1] \in Tried(StateOf(k))
              /\ book[k][i][2] = Tally(rewards, StateOf(k), book[k][i][1])
    /\ Built =>
          /\ DOMAIN table = {hashable(p[1]) : p \in descended}
          /\ \A k \in DOMAIN table : table[k] \in Tried(StateOf(k))

\* a second invocation has returned a book after a first one that ran an
\* episode, and both ran at least one
C15_Witness ==
    /\ Built /\ builds = 2
    /\ num_rounds > 0 /\ used > num_rounds
    /\ DOMAIN table # {}

\* episodes and rollouts of the invocation in progress, counted against R
RolloutCounts ==
    /\ round <= n_started /\ n_started <= round + 1
    /\ n_started <= num_rounds
    /\ n_sim <= n_started /\ n_sim >= round
    /\ bt_stack # <<>> => bt_stack[1].state = NewGameState
    /\ EpisodeOver => n_sim = n_started
    /\ Built => (round = num_rounds /\ n_started = num_rounds /\ n_sim = num_rounds)

\* C16: for every R >= 0 and every sequence of random choices build_table(R)
\* terminates after exactly R episodes; each episode starts from the initial
\* GameState and performs exactly one rollout, so simulate is never called more
\* than num_rounds times.
C16_TerminatesAfterRRollouts ==
    /\ [](phase \in {"build", "simulate", "built"} => RolloutCounts)
    /\ (phase = "build") ~> Built

\* build_table has returned after the largest number of episodes
C16_Witness ==
    /\ Built /\ num_rounds = MaxFairRounds
    /\ round = num_rounds /\ n_sim = num_rounds

\* the same counts over repeated invocations with up to MaxRounds episodes
RolloutCountsAlways == phase \in {"build", "simulate", "built"} => RolloutCounts

(***************************************************************************)
(* The constraint problems against the puzzles they stand for              *)
(***************************************************************************)
\* N queens, the one in column i on row q[i], none attacking another
ValidPlacement(N, q) ==
    /\ Len(q) = N
    /\ \A i \in 1..N : q[i] \in 0..(N - 1)
    /\ \A i, j \in 1..N :
          i < j => /\ q[i] # q[j]
                   /\ q[i] - i # q[j] - j
                   /\ q[i] + i # q[j] + j

\* C17: for every board size N the assignments that satisfy the constraints of
\* nqueens(N) are exactly the placements of N queens, one per column, on rows
\* 0..N-1, no two on the same row or diagonal; for N = 8 there is one.
C17_NQueensConstraints ==
    phase = "queens_checked" => (nq_sat <=> ValidPlacement(nq_N, queens))

\* a satisfying assignment for the 8x8 board, and a board on which every
\* candidate is tried with one
C17_Witness ==
    /\ phase = "queens_checked" /\ nq_N = FirstSize
    /\ nq_sat /\ ValidPlacement(FirstSize, queens)

C17_WitnessSmall ==
    /\ phase = "queens_checked" /\ nq_N = MaxN
    /\ nq_sat /\ ValidPlacement(MaxN, queens)

\* the number a sequence of decimal digits stands for
RECURSIVE Decimal(_)
Decimal(ds) ==
    IF ds = <<>> THEN 0
    ELSE 10 * Decimal(SubSeq(ds, 1, Len(ds) - 1)) + ds[Len(ds)]

\* C18: every assignment that satisfies the constraints of ca_solver gives F, O,
\* R, T, U, W pairwise different digits 0..9 with F and T not 0 and with
\* TWO + TWO = FOUR, and there is such an assignment.
C18_CryptarithmeticModels ==
    phase = "crypt_checked" =>
        /\ ca_models # {}
        /\ \A a \in ca_models :
              /\ {a.F, a.O, a.R, a.T, a.U, a.W} \subseteq 0..9
              /\ Cardinality({a.F, a.O, a.R, a.T, a.U, a.W}) = 6
              /\ a.F # 0 /\ a.T # 0
              /\ Decimal(<<a.T, a.W, a.O>>) + Decimal(<<a.T, a.W, a.O>>) =
                     Decimal(<<a.F, a.O, a.U, a.R>>)

\* the solution the notebook printed, 846 + 846 = 1692, is among the models
C18_Witness ==
    /\ phase = "crypt_checked"
    /\ [F |-> 1, O |-> 6, R |-> 2, T |-> 8, U |-> 9, W |-> 4] \in ca_models

(***************************************************************************)
(* The (alpha, beta) windows of the search                                 *)
(***************************************************************************)
Searching == phase = "search"

\* the window the caller of frame k holds, which is the one frame k was called
\* with: the caller is suspended for as long as frame k exists
CallerWindow(k) ==
    IF k = 1 THEN <<alpha, beta>> ELSE <<stack[k - 1].alpha, stack[k - 1].beta>>

\* the window the caller of frame k was itself called with
CallerReceived(k) ==
    IF k = 1 THEN <<NegInf, PosInf>> ELSE CallerWindow(k - 1)

\* a child has just returned to the node on top of the stack
ChildReturned == Searching /\ stack # <<>> /\ Top.pc = "wait" /\ ret # <<>>

\* the running value of that node with the returned value taken in
RunningValue ==
    IF Top.fn = "min_value" THEN Min2(Top.v, ret[1]) ELSE Max2(Top.v, ret[1])

\* what the node on top of the stack does with the value a child returned
AfterChild ==
    ChildReturned =>
        IF \/ Top.fn = "min_value" /\ RunningValue <= Top.alpha
           \/ Top.fn = "max_value" /\ RunningValue >= Top.beta
        THEN /\ stack' = Pop
             /\ ret' = <<RunningValue>>
             /\ visited' = visited
        ELSE /\ Len(stack') = Len(stack)
             /\ stack'[Len(stack)].v = RunningValue
             /\ stack'[Len(stack)].i = Top.i + 1
             /\ stack'[Len(stack)].alpha =
                    IF Top.fn = "min_value" THEN Top.alpha
                    ELSE Max2(Top.alpha, RunningValue)
             /\ stack'[Len(stack)].beta =
                    IF Top.fn = "min_value" THEN Min2(Top.beta, RunningValue)
                    ELSE Top.beta
             /\ visited' = visited

\* a child is called with the window its parent holds at that moment
ChildCalled ==
    (Searching /\ stack # <<>> /\ Len(stack') = Len(stack) + 1) =>
        /\ stack'[Len(stack')].alpha = Top.alpha
        /\ stack'[Len(stack')].beta = Top.beta
        /\ stack'[Len(stack')].path =
               Append(Top.path, actions(heap[Top.gameState])[Top.i])

\* C19: at a min node, as soon as the running minimum v is <= alpha the node
\* returns v and none of its remaining actions is ever evaluated; otherwise the
\* next child is evaluated with beta tightened to min(beta, v).  At a max node
\* the same with v >= beta and alpha tightened to max(alpha, v).
C19_CutoffOrdering ==
    /\ [](pruned \cap visited = {})
    /\ [][AfterChild /\ ChildCalled]_vars

\* a search in which a min node and a max node each cut off with actions left
C19_Witness ==
    /\ Done
    /\ \E p \in pruned : Len(p) = 2
    /\ \E p \in pruned : Len(p) = 3
    /\ pruned \cap visited = {}

\* the window of every call lies within the window of its caller and is not empty
WindowsNest ==
    \A k \in 1..Len(stack) :
        /\ CallerReceived(k)[1] <= CallerWindow(k)[1]
        /\ CallerWindow(k)[1] < CallerWindow(k)[2]
        /\ CallerWindow(k)[2] <= CallerReceived(k)[2]
        /\ stack[k].pc = "test" =>
              <<stack[k].alpha, stack[k].beta>> = CallerWindow(k)

\* no step changes the window of a suspended caller
CallersKeepWindow ==
    (Searching /\ Searching' /\ stack # <<>>) =>
        /\ alpha' = alpha /\ beta' = beta
        /\ \A k \in 1..Len(stack') :
              k < Len(stack) =>
                  /\ stack'[k].alpha = stack[k].alpha
                  /\ stack'[k].beta = stack[k].beta

\* C20: at every entry to min_value or max_value the window satisfies
\* caller_alpha <= alpha < beta <= caller_beta, where (caller_alpha, caller_beta)
\* is the window the calling node itself received, (-inf, +inf) at the root;
\* windows only narrow on the way down and are never empty, and a bound
\* tightened inside a call is never seen by its parent or its siblings.
C20_WindowsNarrow ==
    /\ [](Searching => WindowsNest)
    /\ [][CallersKeepWindow]_vars

\* a call entered with both bounds tightened, below a caller that was entered
\* with a wider window
C20_Witness ==
    /\ Searching /\ Len(stack) >= 2
    /\ Top.pc = "test"
    /\ Top.alpha > NegInf /\ Top.beta < PosInf /\ Top.alpha < Top.beta
    /\ CallerReceived(Len(stack)) # CallerWindow(Len(stack))

(***************************************************************************)
(* Rewards of one build_tree call                                          *)
(***************************************************************************)
\* +1 for the winner and -1 for the loser of the simulated game: the player to
\* move at the terminal state has no move left and has lost
Outcome(final, player) == IF utility(final, player) > 0 THEN 1 ELSE -1

\* the descent of the episode stopped at a terminal state, above depth 0
StoppedAtTerminal ==
    /\ ep.sim # 0 /\ ep.start = ep.final
    /\ Len(ep.contribs) < DefaultDepth

\* C21: every reward added to the tally of a pair (s, a) during an episode is +1
\* if the player to move at s is the winner at the terminal state the simulated
\* game ends in and -1 if that player is the loser, when the descent stops by
\* depth exhaustion and when it stops at a terminal state; consecutive recorded
\* plies of an episode get rewards of opposite sign.
C21_NegamaxBookkeeping ==
    \A i \in 1..Len(ep.contribs) :
        /\ utility(ep.final, ep.contribs[i][1].parity) # 0
        /\ ep.contribs[i][3] = Outcome(ep.final, ep.contribs[i][1].parity)
        /\ i > 1 => ep.contribs[i][3] = -ep.contribs[i - 1][3]

\* two plies recorded after a descent that ran out of depth ...
C21_Witness ==
    /\ EpisodeOver /\ Len(ep.contribs) = DefaultDepth
    /\ ~terminal_test(ep.start)
    /\ ep.contribs[2][3] = 1 /\ ep.contribs[1][3] = -1

\* ... and one ply recorded after a descent that stopped at a terminal state
C21_WitnessTerminal ==
    /\ EpisodeOver /\ StoppedAtTerminal
    /\ Len(ep.contribs) = 1

\* C22: simulate(s) returns only -1 or +1, scored for the player who was to move
\* at s: -1 exactly when the utility of the reached terminal state for that
\* player is negative and +1 otherwise, also when s is already terminal; whose
\* turn it is at the terminal state and how many random moves were played make
\* no difference beyond that utility.
C22_SimulateScoresStarter ==
    ep.sim # 0 =>
        /\ ep.sim \in {-1, 1}
        /\ terminal_test(ep.final)
        /\ ep.sim = -1 <=> utility(ep.final, ep.start.parity) < 0

\* simulate returned on a state that was already terminal, and returned +1
\* after a rollout of at least three random moves
C22_Witness ==
    /\ ep.sim = -1 /\ ep.start = ep.final

C22_WitnessRollout ==
    /\ ep.sim = 1 /\ Ply(ep.final) >= Ply(ep.start) + 3

(***************************************************************************)
(* The values min_value and max_value return                               *)
(***************************************************************************)
\* a call of min_value or max_value returns in this step
Returns == Evaluating /\ stack # <<>> /\ Len(stack') = Len(stack) - 1

\* the minimax value of the state of the returning call, the call's own node
\* being a min node for min_value and a max node for max_value
TrueValue == PlainValue(heap[Top.gameState], Top.fn = "max_value", 0)

\* the returned value r against the true value m and the window (a, b)
BoundOnTheRightSide(r, m, a, b) ==
    /\ (a < m /\ m < b) => r = m
    /\ m <= a => (m <= r /\ r <= a)
    /\ m >= b => (b <= r /\ r <= m)

\* C23: for every state s with minimax value m and every window alpha < beta
\* the value r returned by min_value(s, alpha, beta) or max_value(s, alpha,
\* beta) is m when alpha < m < beta, satisfies m <= r <= alpha when m <= alpha
\* and beta <= r <= m when m >= beta.
C23_PruningBound ==
    [][Returns =>
          /\ CallerWindow(Len(stack))[1] < CallerWindow(Len(stack))[2]
          /\ BoundOnTheRightSide(ret'[1], TrueValue,
                                 CallerWindow(Len(stack))[1],
                                 CallerWindow(Len(stack))[2])]_vars

\* a call by itself has returned after a cutoff, with a finite window that did
\* not contain the value of its state
C23_Witness ==
    /\ phase = "eval" /\ stack = <<>> /\ ret # <<>>
    /\ skipped
    /\ alpha > NegInf /\ beta < PosInf
    /\ ~terminal_test(gameState)

\* ... and one has returned a bound that is not the value of its state
C23_WitnessInexact ==
    /\ phase = "eval" /\ stack = <<>> /\ ret # <<>>
    /\ ~terminal_test(gameState)
    /\ PlainValue(gameState, TRUE, 0) = PlainValue(gameState, FALSE, 0)
    /\ ret[1] # PlainValue(gameState, TRUE, 0)

(***************************************************************************)
(* Termination of the search                                               *)
(***************************************************************************)
\* an upper bound on the plies left from state s: every move blocks one cell
RemainingPlies(s) == Cardinality({c \in Cells : s.board[c] = 0})

\* a call that returns without having called the other evaluator
LeafReturns ==
    /\ Searching /\ stack # <<>> /\ Top.pc = "test"
    /\ Len(stack') < Len(stack)

\* C24: alpha_beta_search terminates on every non-terminal state of a game in
\* which every sequence of moves ends: every chain of nested min_value and
\* max_value calls ends at a terminal state, the recursion is never deeper than
\* the plies that remain, and the root eventually returns.
C24_SearchTerminates ==
    /\ [](Searching => Len(stack) <= RemainingPlies(heap[1]))
    /\ [][LeafReturns => terminal_test(heap[Top.gameState])]_vars
    /\ (Searching /\ NonTerminalRoot) ~> Done

\* the search from the empty board, the deepest tree of the game, has returned
C24_Witness ==
    /\ Done /\ gameState = NewGameState
    /\ returned # None
    /\ call_counter > 0

====
